---- MODULE Spec2Model ----
(***************************************************************************)
(* The annotation scanner of XenorLuaGenerator (src/src/scanner.rs):       *)
(* parse_lua_file walks the lines of one Lua file, parse_function_doc      *)
(* accumulates a doc block and looks ahead for the declaration it          *)
(* documents.  Strings are TLA+ strings; a position is 0-based as in the   *)
(* Rust code, Option<T> is <<>> (None) or <<v>> (Some(v)).                 *)
(***************************************************************************)
EXTENDS Integers, Sequences, FiniteSets, TLC

VARIABLES lines, i, pc, doc_block, docs, sources, spins

vars == <<lines, i, pc, doc_block, docs, sources, spins>>

----------------------------------------------------------------------------
(* Option<T> *)

None == <<>>

Some(v) == <<v>>

IsSome(o) == o # <<>>

Unwrap(o) == o[1]

\* the first Some of a sequence of options, or None
RECURSIVE FirstSome(_)
FirstSome(os) ==
    IF os = <<>> THEN None
    ELSE IF IsSome(Head(os)) THEN Head(os)
    ELSE FirstSome(Tail(os))

----------------------------------------------------------------------------
(* str primitives of the Rust standard library, as the scanner uses them *)

Lower == {"a","b","c","d","e","f","g","h","i","j","k","l","m",
          "n","o","p","q","r","s","t","u","v","w","x","y","z"}

Upper == {"A","B","C","D","E","F","G","H","I","J","K","L","M",
          "N","O","P","Q","R","S","T","U","V","W","X","Y","Z"}

Digit == {"0","1","2","3","4","5","6","7","8","9"}

\* char::is_whitespace, restricted to the characters a line can hold
Whitespace == {" ", "\t"}

\* s[a..b], 0-based, b exclusive
Slice(s, a, b) == SubSeq(s, a + 1, b)

\* s[a..]
SliceFrom(s, a) == SubSeq(s, a + 1, Len(s))

\* the character at 0-based position p ("" past the end)
CharAt(s, p) == IF p >= 0 /\ p < Len(s) THEN SubSeq(s, p + 1, p + 1) ELSE ""

starts_with(s, p) == Len(s) >= Len(p) /\ SubSeq(s, 1, Len(p)) = p

\* starts_with at an offset: the regex literal matcher
StartsAt(s, pos, p) == pos + Len(p) <= Len(s) /\ Slice(s, pos, pos + Len(p)) = p

RECURSIVE trim_start(_)
trim_start(s) ==
    IF Len(s) > 0 /\ CharAt(s, 0) \in Whitespace
    THEN trim_start(SliceFrom(s, 1))
    ELSE s

RECURSIVE trim_end(_)
trim_end(s) ==
    IF Len(s) > 0 /\ CharAt(s, Len(s) - 1) \in Whitespace
    THEN trim_end(Slice(s, 0, Len(s) - 1))
    ELSE s

trim(s) == trim_end(trim_start(s))

\* str::trim_start_matches: the prefix is removed repeatedly
RECURSIVE trim_start_matches(_, _)
trim_start_matches(s, p) ==
    IF starts_with(s, p)
    THEN trim_start_matches(SliceFrom(s, Len(p)), p)
    ELSE s

\* str::strip_prefix: the prefix is removed once
strip_prefix(s, p) == IF starts_with(s, p) THEN Some(SliceFrom(s, Len(p))) ELSE None

\* str::find(char): the first position of c, or None
find(s, c) ==
    LET hits == {p \in 0..(Len(s) - 1) : CharAt(s, p) = c}
    IN  IF hits = {} THEN None
        ELSE Some(CHOOSE p \in hits : \A q \in hits : p <= q)

contains(s, c) == IsSome(find(s, c))

\* str::splitn(n, c): at most n pieces, the last one holding the rest
RECURSIVE splitn(_, _, _)
splitn(s, n, c) ==
    IF n <= 1 \/ ~contains(s, c)
    THEN <<s>>
    ELSE LET p == Unwrap(find(s, c))
         IN  <<Slice(s, 0, p)>> \o splitn(SliceFrom(s, p + 1), n - 1, c)

\* the end of the maximal run of characters of set cs starting at pos
RECURSIVE RunEnd(_, _, _)
RunEnd(s, pos, cs) ==
    IF pos < Len(s) /\ CharAt(s, pos) \in cs
    THEN RunEnd(s, pos + 1, cs)
    ELSE pos

\* the end of the maximal run of characters outside cs starting at pos
RECURSIVE WordEnd(_, _, _)
WordEnd(s, pos, cs) ==
    IF pos < Len(s) /\ CharAt(s, pos) \notin cs
    THEN WordEnd(s, pos + 1, cs)
    ELSE pos

\* str::split_whitespace: the non-empty maximal runs of non-whitespace
RECURSIVE split_whitespace(_)
split_whitespace(s) ==
    LET t == trim_start(s)
        e == WordEnd(t, 0, Whitespace)
    IN  IF t = "" THEN <<>>
        ELSE <<Slice(t, 0, e)>> \o split_whitespace(SliceFrom(t, e))

\* [&str]::join(sep)
RECURSIVE join(_, _)
join(ws, sep) ==
    IF Len(ws) = 0 THEN ""
    ELSE IF Len(ws) = 1 THEN ws[1]
    ELSE ws[1] \o sep \o join(Tail(ws), sep)

----------------------------------------------------------------------------
(* The regular expressions of extract_function_name.  Each pattern is      *)
(* unanchored: the regex crate reports the leftmost match.  The pieces are *)
(* greedy and no shorter piece can be followed by what comes next, so the  *)
(* match at a start position is the maximal-munch one.                     *)

IdStart == Lower \cup Upper \cup {"_"}

IdChar == IdStart \cup Digit

\* [a-zA-Z_][a-zA-Z0-9_]* at pos: the end of the identifier, or None
MatchId(s, pos) ==
    IF CharAt(s, pos) \in IdStart THEN Some(RunEnd(s, pos + 1, IdChar)) ELSE None

\* (?:\.[a-zA-Z_][a-zA-Z0-9_]*)* at pos: the end of the dotted tail
RECURSIVE MatchDotTail(_, _)
MatchDotTail(s, pos) ==
    LET m == IF CharAt(s, pos) = "." THEN MatchId(s, pos + 1) ELSE None
    IN  IF IsSome(m) THEN MatchDotTail(s, Unwrap(m)) ELSE pos

\* [a-zA-Z_][a-zA-Z0-9_]*(?:\.[a-zA-Z_][a-zA-Z0-9_]*)* at pos
MatchDotted(s, pos) ==
    LET m == MatchId(s, pos)
    IN  IF IsSome(m) THEN Some(MatchDotTail(s, Unwrap(m))) ELSE None

\* \s* at pos
SkipWs(s, pos) == RunEnd(s, pos, Whitespace)

\* function\s+(DOTTED)\s*\(  starting at pos: capture group 1
FunctionAt(s, pos) ==
    LET a == pos + Len("function")
        b == SkipWs(s, a)
        e == MatchDotted(s, b)
    IN  IF StartsAt(s, pos, "function") /\ b > a /\ IsSome(e)
           /\ CharAt(s, SkipWs(s, Unwrap(e))) = "("
        THEN Some(Slice(s, b, Unwrap(e)))
        ELSE None

\* the leftmost match of the pattern
FunctionFrom(s) == FirstSome([p \in 1..Len(s) |-> FunctionAt(s, p - 1)])

function_regex(s) == FunctionFrom(s)

\* local\s+function\s+(ID)\s*\(  starting at pos: capture group 1
LocalFunctionAt(s, pos) ==
    LET a == pos + Len("local")
        b == SkipWs(s, a)
        c == b + Len("function")
        d == SkipWs(s, c)
        e == MatchId(s, d)
    IN  IF StartsAt(s, pos, "local") /\ b > a /\ StartsAt(s, b, "function") /\ d > c
           /\ IsSome(e) /\ CharAt(s, SkipWs(s, Unwrap(e))) = "("
        THEN Some(Slice(s, d, Unwrap(e)))
        ELSE None

LocalFunctionFrom(s) == FirstSome([p \in 1..Len(s) |-> LocalFunctionAt(s, p - 1)])

local_function_regex(s) == LocalFunctionFrom(s)

\* (DOTTED):(ID)\s*\(  starting at pos: <<group 1, group 2>>
MethodAt(s, pos) ==
    LET r == MatchDotted(s, pos)
        m == IF IsSome(r) /\ CharAt(s, Unwrap(r)) = ":"
             THEN MatchId(s, Unwrap(r) + 1) ELSE None
    IN  IF IsSome(m) /\ CharAt(s, SkipWs(s, Unwrap(m))) = "("
        THEN Some(<<Slice(s, pos, Unwrap(r)), Slice(s, Unwrap(r) + 1, Unwrap(m))>>)
        ELSE None

MethodFrom(s) == FirstSome([p \in 1..Len(s) |-> MethodAt(s, p - 1)])

method_regex(s) == MethodFrom(s)

\* (DOTTED)\s*=\s*function\s*\(  starting at pos: capture group 1
AssignmentAt(s, pos) ==
    LET r == MatchDotted(s, pos)
        a == IF IsSome(r) THEN SkipWs(s, Unwrap(r)) ELSE 0
        b == SkipWs(s, a + 1)
        c == SkipWs(s, b + Len("function"))
    IN  IF IsSome(r) /\ CharAt(s, a) = "=" /\ StartsAt(s, b, "function")
           /\ CharAt(s, c) = "("
        THEN Some(Slice(s, pos, Unwrap(r)))
        ELSE None

AssignmentFrom(s) == FirstSome([p \in 1..Len(s) |-> AssignmentAt(s, p - 1)])

assignment_regex(s) == AssignmentFrom(s)

----------------------------------------------------------------------------
(* The pure functions of the scanner *)

is_doc_comment(line) ==
    LET trimmed == trim_start(line)
    IN  \/ starts_with(trimmed, "--@")
        \/ starts_with(trimmed, "-- @")
        \/ /\ starts_with(trimmed, "--")
           /\ ~starts_with(trimmed, "---")
           /\ ~starts_with(trimmed, "-- TODO")
           /\ ~starts_with(trimmed, "-- FIXME")

extract_doc_content(line) ==
    trim(trim_start_matches(
            trim_start_matches(
                trim_start_matches(trim_start(line), "--@"), "-- @"), "--"))

\* the split at the last `.` instead of the first
RECURSIVE rsplit_dot(_, _)
rsplit_dot(s, p) ==
    IF CharAt(s, p) = "." THEN <<Slice(s, 0, p), SliceFrom(s, p + 1)>> ELSE rsplit_dot(s, p - 1)

categorize_function_last_dot(func_name, class_name) ==
    IF contains(func_name, ".")
    THEN rsplit_dot(func_name, Len(func_name) - 1)
    ELSE <<IF IsSome(class_name) THEN Unwrap(class_name) ELSE "Global", func_name>>

categorize_function(func_name, class_name) ==
    IF contains(func_name, ".")
    THEN LET parts == splitn(func_name, 2, ".")
         IN  <<parts[1], parts[2]>>
    ELSE <<IF IsSome(class_name) THEN Unwrap(class_name) ELSE "Global", func_name>>

parse_return(raw) ==
    LET content   == trim(raw)
        comma_pos == find(content, ",")
        space_pos == find(content, " ")
    IN  IF IsSome(comma_pos)
        THEN Some([return_type |-> trim(Slice(content, 0, Unwrap(comma_pos))),
                   description |-> trim(SliceFrom(content, Unwrap(comma_pos) + 1))])
        ELSE IF IsSome(space_pos)
        THEN Some([return_type |-> trim(Slice(content, 0, Unwrap(space_pos))),
                   description |-> trim(SliceFrom(content, Unwrap(space_pos) + 1))])
        ELSE Some([return_type |-> content, description |-> ""])

parse_param(raw) ==
    LET content   == trim(raw)
        colon_pos == find(content, ":")
        rest      == SliceFrom(content, Unwrap(colon_pos) + 1)
        space_pos == find(rest, " ")
        pieces    == splitn(content, 3, ",")
        parts     == [k \in 1..Len(pieces) |-> trim(pieces[k])]
        words     == split_whitespace(content)
    IN  IF IsSome(colon_pos)
        THEN IF IsSome(space_pos)
             THEN Some([name        |-> trim(Slice(content, 0, Unwrap(colon_pos))),
                        param_type  |-> trim(Slice(rest, 0, Unwrap(space_pos))),
                        description |-> trim(SliceFrom(rest, Unwrap(space_pos) + 1))])
             ELSE Some([name        |-> trim(Slice(content, 0, Unwrap(colon_pos))),
                        param_type  |-> trim(rest),
                        description |-> ""])
        ELSE IF Len(parts) >= 2
        THEN Some([name        |-> parts[1],
                   param_type  |-> parts[2],
                   description |-> IF Len(parts) >= 3 THEN parts[3] ELSE ""])
        ELSE IF Len(words) >= 2
        THEN Some([name        |-> words[1],
                   param_type  |-> words[2],
                   description |-> join(SubSeq(words, 3, Len(words)), " ")])
        ELSE None

\* format!("{}.{}", &captures[1], &captures[2])
method_name(captures) ==
    IF IsSome(captures)
    THEN Some(Unwrap(captures)[1] \o "." \o Unwrap(captures)[2])
    ELSE None

\* the patterns with the assignment-style one tried before the method-style one
extract_function_name_assignment_first(line) ==
    FirstSome(<<function_regex(line),
                local_function_regex(line),
                assignment_regex(line),
                method_name(method_regex(line))>>)

\* the four patterns in the order the code tries them
extract_function_name(line) ==
    FirstSome(<<function_regex(line),
                local_function_regex(line),
                method_name(method_regex(line)),
                assignment_regex(line)>>)

----------------------------------------------------------------------------
(* parse_function_doc, piece by piece *)

\* lines[k] of the Rust slice (0-based)
Line(ls, k) == ls[k + 1]

\* the block-start test of parse_lua_file
starts_block(line) ==
    \/ starts_with(trim_start(line), "--@")
    \/ starts_with(trim_start(line), "-- @")

DocBlock_new(start_line) ==
    [class_name  |-> None,
     description |-> "",
     params      |-> <<>>,
     returns     |-> <<>>,
     start_line  |-> start_line]

\* the `desc` branch without the separating space
push_desc_no_space(description, tag_content) == description \o trim(tag_content)

\* the `desc` branch: the text joins the description after one space
push_desc(description, tag_content) ==
    IF description = ""
    THEN trim(tag_content)
    ELSE description \o " " \o trim(tag_content)

\* the `param` branch that skips a parameter the list already holds
push_param_dedup(params, tag_content) ==
    LET param == parse_param(tag_content)
    IN  IF IsSome(param) /\ \A k \in 1..Len(params) : params[k] # Unwrap(param)
        THEN Append(params, Unwrap(param))
        ELSE params

\* the `param` branch: a spec parse_param rejects adds nothing
push_param(params, tag_content) ==
    LET param == parse_param(tag_content)
    IN  IF IsSome(param) THEN Append(params, Unwrap(param)) ELSE params

\* the `return` branch
push_return(returns, tag_content) ==
    LET ret == parse_return(tag_content)
    IN  IF IsSome(ret) THEN Append(returns, Unwrap(ret)) ELSE returns

\* the branch of the accumulation loop that sends the iteration to `continue`
is_continue(content) ==
    /\ ~IsSome(strip_prefix(content, "class "))
    /\ ~IsSome(strip_prefix(content, "desc "))
    /\ ~IsSome(strip_prefix(content, "param "))
    /\ ~IsSome(strip_prefix(content, "return "))
    /\ starts_with(content, "@")

\* one iteration of the accumulation loop that reaches `*index += 1`
apply_tag(block, content) ==
    LET class  == strip_prefix(content, "class ")
        desc   == strip_prefix(content, "desc ")
        param  == strip_prefix(content, "param ")
        return == strip_prefix(content, "return ")
    IN  IF IsSome(class)
        THEN [block EXCEPT !.class_name = Some(trim(Unwrap(class)))]
        ELSE IF IsSome(desc)
        THEN [block EXCEPT !.description = push_desc(@, Unwrap(desc))]
        ELSE IF IsSome(param)
        THEN [block EXCEPT !.params = push_param(@, Unwrap(param))]
        ELSE IF IsSome(return)
        THEN [block EXCEPT !.returns = push_return(@, Unwrap(return))]
        ELSE IF trim(content) # "" /\ block.description = ""
        THEN [block EXCEPT !.description = trim(content)]
        ELSE block

\* the blank test without the trim
is_blank_untrimmed(line) == line = ""

\* lines[*index].trim().is_empty()
is_blank(line) == trim(line) = ""

\* for lookahead in 0..3
LOOKAHEAD == 3

\* the last lookahead of the window that matches, instead of the first
last_match(ls, idx) ==
    LET hits == {k \in 0..(LOOKAHEAD - 1) :
                    idx + k < Len(ls) /\ IsSome(extract_function_name(Line(ls, idx + k)))}
    IN  IF hits = {} THEN None
        ELSE Some(CHOOSE k \in hits : \A j \in hits : k >= j)

\* the first lookahead at which extract_function_name succeeds, or None
first_match(ls, idx) ==
    LET hits == {k \in 0..(LOOKAHEAD - 1) :
                    idx + k < Len(ls) /\ IsSome(extract_function_name(Line(ls, idx + k)))}
    IN  IF hits = {} THEN None
        ELSE Some(CHOOSE k \in hits : \A j \in hits : k <= j)

\* the value parse_function_doc returns once the blank lines are skipped
locate(ls, idx, block) ==
    LET found == first_match(ls, idx)
    IN  IF IsSome(found)
        THEN LET func_name == Unwrap(extract_function_name(Line(ls, idx + Unwrap(found))))
                 cn        == categorize_function(func_name, block.class_name)
             IN  Some(<<cn[1], [name        |-> cn[2],
                                description |-> block.description,
                                params      |-> block.params,
                                returns     |-> block.returns]>>)
        ELSE None

\* docs.entry(category).or_insert_with(Vec::new).push(function)
insert(d, category, function) ==
    IF category \in DOMAIN d
    THEN [d EXCEPT ![category] = Append(@, function)]
    ELSE d @@ (category :> <<function>>)

----------------------------------------------------------------------------
(* The files the scan is run on *)

MaxLines == 4

MaxBlank == 4

MaxOther == 3

MaxSpin == 2

\* lines of every kind the scan distinguishes
StructPool ==
    {"--@desc A", "-- note", "", "local x = 1", "function M.foo()", "obj:update(dt)", "--@@"}

\* annotation lines, one or more per tag and payload shape
TagLines ==
    {"--@desc Part one.", "--@desc Part two.", "-- @desc   spaced", "--@desc",
     "--@class Player", "--@class Enemy", "-- free text", "--@ @see",
     "--@param x:int the x value", "--@param x:int", "--@param x, int, the x value",
     "--@param x int the  x value", "--@param x, int", "--@param x:int\tthe x value",
     "--@param x", "--@param x:", "--@param :int", "--@param x: int d", "--@param ,",
     "--@return int, a count", "--@return int", "--@return int a count",
     "--@return int\ta count", "--@return", "--@return a b, c"}

\* declaration lines in the four syntaxes, and lines that are none
DeclLines ==
    {"function M.foo()", "local function foo()", "obj:update(dt)", "M.foo = function()",
     "function a.b.c (x)", "function M:foo(a)", "a.b:c(x)",
     "M.foo = function(a) return g:h(a) end", "x\t=\tfunction (", "local x = 1"}

BlankLines == {"", " \t"}

Repeat(x, n) == [k \in 1..n |-> x]

SeqsUpTo(S, n) == UNION {[1..k -> S] : k \in 1..n}

\* every arrangement of up to MaxLines lines of StructPool
GeneralFiles == SeqsUpTo(StructPool, MaxLines)

\* a block of two annotation lines and the line after it
TagFiles == {<<a, b, d>> : a \in TagLines, b \in TagLines, d \in DeclLines}

\* a block, n blank lines, m other lines, a declaration
GapFile(doc, blank, n, m, decl) ==
    <<doc>> \o Repeat(blank, n) \o Repeat("local x = 1", m) \o <<decl>>

GapFiles ==
    {GapFile("--@desc Part one.", b, n, m, "function M.foo()") :
        b \in BlankLines, n \in 0..MaxBlank, m \in 0..MaxOther}

Files == GeneralFiles \cup TagFiles \cup GapFiles

----------------------------------------------------------------------------
(* parse_lua_file as a state machine.  parse_function_doc borrows the     *)
(* cursor of parse_lua_file (`&mut i`), so there is one cursor, i.        *)
(* sources records, for each entry pushed, the line its name came from;   *)
(* spins counts the iterations the accumulation loop ended by `continue`. *)

EmptyDocs == [c \in {} |-> <<>>]

Init ==
    /\ lines \in Files
    /\ i = 0
    /\ pc = "scan"
    /\ doc_block = None
    /\ docs = EmptyDocs
    /\ sources = <<>>
    /\ spins = 0

\* while i < lines.len(): a line that starts no block
ScanSkip ==
    /\ pc = "scan"
    /\ i < Len(lines)
    /\ ~starts_block(Line(lines, i))
    /\ i' = i + 1
    /\ UNCHANGED <<lines, pc, doc_block, docs, sources, spins>>

\* a line that starts a block: parse_function_doc is entered
ScanBlock ==
    /\ pc = "scan"
    /\ i < Len(lines)
    /\ starts_block(Line(lines, i))
    /\ doc_block' = DocBlock_new(i)
    /\ pc' = "accumulate"
    /\ UNCHANGED <<lines, i, docs, sources, spins>>

ScanEnd ==
    /\ pc = "scan"
    /\ i >= Len(lines)
    /\ pc' = "done"
    /\ UNCHANGED <<lines, i, doc_block, docs, sources, spins>>

\* an iteration of the accumulation loop that reaches `*index += 1`
Accumulate ==
    /\ pc = "accumulate"
    /\ i < Len(lines)
    /\ is_doc_comment(Line(lines, i))
    /\ LET content == extract_doc_content(Line(lines, i))
       IN  /\ ~is_continue(content)
           /\ doc_block' = apply_tag(doc_block, content)
    /\ i' = i + 1
    /\ UNCHANGED <<lines, pc, docs, sources, spins>>

\* an iteration that ends in `continue`: the cursor stays where it is
AccumulateContinue ==
    /\ pc = "accumulate"
    /\ i < Len(lines)
    /\ is_doc_comment(Line(lines, i))
    /\ is_continue(extract_doc_content(Line(lines, i)))
    /\ spins < MaxSpin
    /\ spins' = spins + 1
    /\ UNCHANGED <<lines, i, pc, doc_block, docs, sources>>

AccumulateEnd ==
    /\ pc = "accumulate"
    /\ ~(i < Len(lines) /\ is_doc_comment(Line(lines, i)))
    /\ pc' = "skip_blank"
    /\ UNCHANGED <<lines, i, doc_block, docs, sources, spins>>

\* while *index < lines.len() && lines[*index].trim().is_empty()
SkipBlank ==
    /\ pc = "skip_blank"
    /\ i < Len(lines)
    /\ is_blank(Line(lines, i))
    /\ i' = i + 1
    /\ UNCHANGED <<lines, pc, doc_block, docs, sources, spins>>

SkipBlankEnd ==
    /\ pc = "skip_blank"
    /\ ~(i < Len(lines) /\ is_blank(Line(lines, i)))
    /\ pc' = "lookahead"
    /\ UNCHANGED <<lines, i, doc_block, docs, sources, spins>>

\* the lookahead loop finds a declaration: the entry is pushed, then i += 1
LookaheadFound ==
    /\ pc = "lookahead"
    /\ LET func == locate(lines, i, doc_block)
       IN  /\ IsSome(func)
           /\ docs' = insert(docs, Unwrap(func)[1], Unwrap(func)[2])
    /\ sources' = Append(sources, i + Unwrap(first_match(lines, i)))
    /\ i' = i + 1
    /\ pc' = "scan"
    /\ doc_block' = None
    /\ UNCHANGED <<lines, spins>>

\* the lookahead loop finds none: the block is dropped, then i += 1
LookaheadNone ==
    /\ pc = "lookahead"
    /\ ~IsSome(first_match(lines, i))
    /\ i' = i + 1
    /\ pc' = "scan"
    /\ doc_block' = None
    /\ UNCHANGED <<lines, docs, sources, spins>>

Next ==
    \/ ScanSkip
    \/ ScanBlock
    \/ ScanEnd
    \/ Accumulate
    \/ AccumulateContinue
    \/ AccumulateEnd
    \/ SkipBlank
    \/ SkipBlankEnd
    \/ LookaheadFound
    \/ LookaheadNone

Spec == Init /\ [][Next]_vars

----------------------------------------------------------------------------
(* What the claims speak of *)

\* the (category, name) pairs of the Documentation
EntryNames(d) == UNION {{<<c, d[c][k].name>> : k \in 1..Len(d[c])} : c \in DOMAIN d}

\* the number of DocumentedFunctions of the Documentation
RECURSIVE SumLen(_, _)
SumLen(d, cs) ==
    IF cs = {} THEN 0
    ELSE LET c == CHOOSE x \in cs : TRUE
         IN  Len(d[c]) + SumLen(d, cs \ {c})

TotalEntries(d) == SumLen(d, DOMAIN d)

\* a file that is one annotation line, n blank lines and `function M.foo()`
BlockThenBlanks(ls, n) ==
    /\ Len(ls) = n + 2
    /\ starts_block(ls[1])
    /\ \A k \in 2..(n + 1) : \A p \in 0..(Len(ls[k]) - 1) : CharAt(ls[k], p) \in Whitespace
    /\ ls[n + 2] = "function M.foo()"

\* a file that is one annotation line, m lines of code that declare nothing
\* and `function M.foo()`
BlockThenOthers(ls, m) ==
    /\ Len(ls) = m + 2
    /\ starts_block(ls[1])
    /\ \A k \in 2..(m + 1) : ls[k] = "local x = 1"
    /\ ls[m + 2] = "function M.foo()"

C2_NoDuplicateEntries ==
    /\ Len(sources) = TotalEntries(docs)
    /\ \A k \in 1..Len(sources) : IsSome(extract_function_name(Line(lines, sources[k])))
    /\ \A j, k \in 1..Len(sources) : j # k => sources[j] # sources[k]

\* a file that is a block of two annotation lines and one more line
TwoLineBlock(ls) ==
    /\ Len(ls) = 3
    /\ starts_block(ls[1])
    /\ is_doc_comment(ls[2])

\* the class a `class` line of TagLines names
ClassOfLine(line) ==
    IF line = "--@class Player" THEN Some("Player")
    ELSE IF line = "--@class Enemy" THEN Some("Enemy")
    ELSE None

\* the class context of a two-line block: its last `class` line
BlockClass(ls) == FirstSome(<<ClassOfLine(ls[2]), ClassOfLine(ls[1])>>)

BlockCategory(ls) == IF IsSome(BlockClass(ls)) THEN Unwrap(BlockClass(ls)) ELSE "Global"

HasDot(s) == \E p \in 0..(Len(s) - 1) : CharAt(s, p) = "."

\* C3: the locator followed by the resolver gives each declaration syntax
\* its (category, name) pair: `function M.foo(` (M, foo), `local function
\* foo(` (class context or Global, foo), `obj:update(` (obj, update),
\* `M.foo = function(` (M, foo); per line the patterns are tried in the order
\* named, local, method-style, assignment-style and the first that matches
\* is the only one used (so a line that is both method-style and
\* assignment-style is read as method-style).
C3_DeclarationPairs ==
    /\ pc = "done" /\ TwoLineBlock(lines) =>
          LET d == lines[3]
              e == EntryNames(docs)
          IN  /\ d = "function M.foo()" => e = {<<"M", "foo">>}
              /\ d = "local function foo()" => e = {<<BlockCategory(lines), "foo">>}
              /\ d = "obj:update(dt)" => e = {<<"obj", "update">>}
              /\ d = "M.foo = function()" => e = {<<"M", "foo">>}
              /\ d = "function a.b.c (x)" => e = {<<"a", "b.c">>}
              /\ d = "function M:foo(a)" => e = {<<"M", "foo">>}
              /\ d = "M.foo = function(a) return g:h(a) end" => e = {<<"g", "h">>}
              /\ d = "x\t=\tfunction (" => e = {<<BlockCategory(lines), "x">>}
              /\ d = "local x = 1" => e = {}
    /\ \A k \in 1..Len(lines) :
          LET l == lines[k]
              r == extract_function_name(l)
          IN  IF IsSome(function_regex(l)) THEN r = function_regex(l)
              ELSE IF IsSome(local_function_regex(l)) THEN r = local_function_regex(l)
              ELSE IF IsSome(method_regex(l))
              THEN r = Some(Unwrap(method_regex(l))[1] \o "." \o Unwrap(method_regex(l))[2])
              ELSE r = assignment_regex(l)

C3_Witness ==
    /\ pc = "done"
    /\ TwoLineBlock(lines)
    /\ lines[3] = "M.foo = function(a) return g:h(a) end"
    /\ EntryNames(docs) = {<<"g", "h">>}

\* C4: categorize_function always gives a pair.  A declared name with a `.`
\* is split at its first `.`: the category is the text before it (so it holds
\* no `.`), the name is all the rest, whatever the class context.  A name
\* without `.` is kept whole and its category is the block's last `class`
\* line, or "Global" when the block has none.
C4_Categorize ==
    pc = "done" /\ TwoLineBlock(lines) /\ IsSome(extract_function_name(lines[3])) =>
        LET fn == Unwrap(extract_function_name(lines[3]))
        IN  /\ TotalEntries(docs) = 1
            /\ \A c \in DOMAIN docs :
                  IF HasDot(fn)
                  THEN (c \o "." \o docs[c][1].name) = fn /\ ~HasDot(c)
                  ELSE docs[c][1].name = fn /\ c = BlockCategory(lines)

C4_Witness ==
    /\ pc = "done"
    /\ TwoLineBlock(lines)
    /\ lines[1] = "--@class Player"
    /\ lines[3] = "function a.b.c (x)"
    /\ EntryNames(docs) = {<<"a", "b.c">>}

\* the least element of a non-empty set of line numbers
Min(S) == CHOOSE k \in S : \A j \in S : k <= j

\* the lines of the lookahead window that hold a declaration
WindowMatches ==
    {k \in i..(i + 2) : k < Len(lines) /\ IsSome(extract_function_name(Line(lines, k)))}

\* C5: when none of the up to 3 lines from the first non-blank line after a
\* block holds a declaration, the block is dropped: the Documentation is left
\* as it was and the scan goes on.  When one does, one entry is added and the
\* first such line alone gives its category and name; its description, params
\* and returns are the block's.
C5_FirstMatchOrDrop ==
    [][pc = "lookahead" =>
         /\ pc' = "scan"
         /\ doc_block' = None
         /\ IF WindowMatches = {}
            THEN docs' = docs /\ sources' = sources
            ELSE LET k  == Min(WindowMatches)
                     cn == categorize_function(
                               Unwrap(extract_function_name(Line(lines, k))),
                               doc_block.class_name)
                 IN  /\ sources' = Append(sources, k)
                     /\ TotalEntries(docs') = TotalEntries(docs) + 1
                     /\ cn[1] \in DOMAIN docs'
                     /\ docs'[cn[1]][Len(docs'[cn[1]])] =
                            [name        |-> cn[2],
                             description |-> doc_block.description,
                             params      |-> doc_block.params,
                             returns     |-> doc_block.returns]
                     /\ \A c \in DOMAIN docs :
                            /\ c \in DOMAIN docs'
                            /\ SubSeq(docs'[c], 1, Len(docs[c])) = docs[c]]_vars

C5_Witness ==
    /\ pc = "done"
    /\ BlockThenOthers(lines, LOOKAHEAD)
    /\ docs = EmptyDocs
    /\ doc_block = None

\* the line the accumulation loop has just consumed, inside a block
InBlockAfterLine == pc = "accumulate" /\ i > doc_block.start_line

PrevLine == Line(lines, i - 1)

\* the text after `tag ` of a line of that tag, or None
Payload(line, tag) == strip_prefix(extract_doc_content(line), tag \o " ")

\* the first position of s that holds whitespace, or None
FirstWhitespace(s) ==
    LET hits == {p \in 0..(Len(s) - 1) : CharAt(s, p) \in Whitespace}
    IN  IF hits = {} THEN None ELSE Some(Min(hits))

\* the Parameter the four shapes of the spec give a parameter spec, in order
ParamAsSpecified(raw) ==
    LET content == trim(raw)
        colon   == find(content, ":")
        rest    == SliceFrom(content, Unwrap(colon) + 1)
        ws      == FirstWhitespace(rest)
        fields  == splitn(content, 3, ",")
        tokens  == split_whitespace(content)
    IN  IF IsSome(colon)
        THEN IF IsSome(ws)
             THEN Some([name        |-> trim(Slice(content, 0, Unwrap(colon))),
                        param_type  |-> trim(Slice(rest, 0, Unwrap(ws))),
                        description |-> trim(SliceFrom(rest, Unwrap(ws) + 1))])
             ELSE Some([name        |-> trim(Slice(content, 0, Unwrap(colon))),
                        param_type  |-> trim(rest),
                        description |-> ""])
        ELSE IF Len(fields) >= 2
        THEN Some([name        |-> trim(fields[1]),
                   param_type  |-> trim(fields[2]),
                   description |-> IF Len(fields) >= 3 THEN trim(fields[3]) ELSE ""])
        ELSE IF Len(tokens) >= 2
        THEN Some([name        |-> tokens[1],
                   param_type  |-> tokens[2],
                   description |-> join(SubSeq(tokens, 3, Len(tokens)), " ")])
        ELSE None

\* C6: parse_param tries the shapes in order, the first that fits wins:
\* `name:type description` (split at the first `:`, the remainder at its first
\* whitespace), `name:type` (empty description), `name, type, description`
\* (empty description when absent), else whitespace tokens; so the parameter
\* a `param` line adds is the one these shapes give, and "x:int the x value",
\* "x, int, the x value" give {x, int, "the x value"}, "x:int" gives {x, int, ""}.
C6_ParamShapes ==
    /\ parse_param("x:int the x value")
          = Some([name |-> "x", param_type |-> "int", description |-> "the x value"])
    /\ parse_param("x, int, the x value") = parse_param("x:int the x value")
    /\ parse_param("x:int") = Some([name |-> "x", param_type |-> "int", description |-> ""])
    /\ InBlockAfterLine /\ IsSome(Payload(PrevLine, "param")) =>
          LET e == ParamAsSpecified(Unwrap(Payload(PrevLine, "param")))
          IN  IsSome(e) =>
                 /\ Len(doc_block.params) > 0
                 /\ doc_block.params[Len(doc_block.params)] = Unwrap(e)

\* every Parameter of the block in hand and of the Documentation
AllParams ==
    UNION ({IF pc \in {"accumulate", "skip_blank", "lookahead"}
            THEN {doc_block.params[k] : k \in 1..Len(doc_block.params)}
            ELSE {}}
           \cup {{docs[c][k].params[j] : j \in 1..Len(docs[c][k].params)} :
                    <<c, k>> \in UNION {{<<c, k>> : k \in 1..Len(docs[c])} : c \in DOMAIN docs}})

\* C7: a `param` spec without 2 non-empty fields under any shape adds no
\* parameter, so every Parameter has a non-empty name and a non-empty type.
C7_ParamsWellFormed ==
    \A q \in AllParams : q.name # "" /\ q.param_type # ""

\* a line whose content is the tag alone or the tag followed by whitespace
CarriesTag(line, tag) ==
    LET content == extract_doc_content(line)
    IN  \/ content = tag
        \/ starts_with(content, tag) /\ CharAt(content, Len(tag)) \in Whitespace

\* C8: every line carrying the `return` tag adds exactly one entry to the
\* returns of its block, also when its spec is empty: none is dropped.
C8_ReturnNeverDropped ==
    pc = "accumulate" =>
        Len(doc_block.returns) =
            Cardinality({k \in doc_block.start_line..(i - 1) :
                            CarriesTag(Line(lines, k), "return")})

\* the ReturnValue the three shapes of the spec give a return spec, in order
ReturnAsSpecified(raw) ==
    LET content == trim(raw)
        comma   == find(content, ",")
        ws      == FirstWhitespace(content)
    IN  IF IsSome(comma)
        THEN [return_type |-> trim(Slice(content, 0, Unwrap(comma))),
              description |-> trim(SliceFrom(content, Unwrap(comma) + 1))]
        ELSE IF IsSome(ws)
        THEN [return_type |-> trim(Slice(content, 0, Unwrap(ws))),
              description |-> trim(SliceFrom(content, Unwrap(ws) + 1))]
        ELSE [return_type |-> content, description |-> ""]

\* C9: parse_return always succeeds: with a comma the type is the trimmed
\* text before the first comma and the description the trimmed text after it;
\* else with whitespace it is split at the first whitespace; else the whole
\* content is the type.  "int, a count" gives {int, "a count"}, "int" {int, ""}.
C9_ReturnShapes ==
    /\ parse_return("int, a count") = Some([return_type |-> "int", description |-> "a count"])
    /\ parse_return("int") = Some([return_type |-> "int", description |-> ""])
    /\ InBlockAfterLine /\ IsSome(Payload(PrevLine, "return")) =>
          /\ Len(doc_block.returns) > 0
          /\ doc_block.returns[Len(doc_block.returns)]
                = ReturnAsSpecified(Unwrap(Payload(PrevLine, "return")))

\* the text of the `desc` lines of the pools
DescText(line) ==
    CASE line = "--@desc Part one."  -> Some("Part one.")
      [] line = "--@desc Part two."  -> Some("Part two.")
      [] line = "-- @desc   spaced"  -> Some("spaced")
      [] line = "--@desc A"          -> Some("A")
      [] OTHER                       -> None

\* C10: a `desc` line appends its text to the description of the block,
\* after exactly one space when the description is not empty; a block of k
\* `desc` lines has their texts joined by single spaces in authored order
\* ("desc Part one." then "desc Part two." gives "Part one. Part two.").
C10_DescJoin ==
    /\ [](InBlockAfterLine
            /\ (\A k \in doc_block.start_line..(i - 1) : IsSome(DescText(Line(lines, k))))
          => doc_block.description
                = join([k \in 1..(i - doc_block.start_line) |->
                           Unwrap(DescText(Line(lines, doc_block.start_line + k - 1)))], " "))
    /\ [][pc = "accumulate" /\ i' = i + 1 /\ IsSome(DescText(Line(lines, i))) =>
            doc_block'.description =
                IF doc_block.description = ""
                THEN Unwrap(DescText(Line(lines, i)))
                ELSE doc_block.description \o " " \o Unwrap(DescText(Line(lines, i)))]_vars

C10_Witness ==
    /\ pc = "done"
    /\ lines = <<"--@desc Part one.", "--@desc Part two.", "function M.foo()">>
    /\ docs = ("M" :> <<[name |-> "foo", description |-> "Part one. Part two.",
                         params |-> <<>>, returns |-> <<>>]>>)

\* the values parse gives the `tag` lines from..to-1 of ls that it accepts,
\* in the order of the lines (parse is "param" or "return")
RECURSIVE ParsedInOrder(_, _, _, _)
ParsedInOrder(ls, from, to, tag) ==
    IF from >= to THEN <<>>
    ELSE LET pl == Payload(Line(ls, from), tag)
             v  == IF ~IsSome(pl) THEN None
                   ELSE IF tag = "param" THEN parse_param(Unwrap(pl))
                   ELSE parse_return(Unwrap(pl))
         IN  (IF IsSome(v) THEN <<Unwrap(v)>> ELSE <<>>)
                 \o ParsedInOrder(ls, from + 1, to, tag)

\* C11: the params and the returns of a DocumentedFunction are the parsed
\* `param` and `return` lines of its block in authored order, nothing
\* reordered and nothing deduplicated (two identical param lines give two
\* parameters): so it is of the block while it is accumulated, and of the
\* entry a two-line block leaves in the Documentation.
C11_AuthoredOrder ==
    /\ pc = "accumulate" =>
          /\ doc_block.params = ParsedInOrder(lines, doc_block.start_line, i, "param")
          /\ doc_block.returns = ParsedInOrder(lines, doc_block.start_line, i, "return")
    /\ pc = "done" /\ TwoLineBlock(lines) =>
          \A c \in DOMAIN docs : \A k \in 1..Len(docs[c]) :
              /\ docs[c][k].params = ParsedInOrder(lines, 0, 2, "param")
              /\ docs[c][k].returns = ParsedInOrder(lines, 0, 2, "return")

C11_Witness ==
    /\ pc = "done"
    /\ lines = <<"--@param x:int", "--@param x:int", "function M.foo()">>
    /\ "M" \in DOMAIN docs
    /\ docs["M"][1].params = <<[name |-> "x", param_type |-> "int", description |-> ""],
                               [name |-> "x", param_type |-> "int", description |-> ""]>>

\* C12: parse_lua_file terminates on every finite sequence of lines: each
\* iteration of the accumulation loop moves the cursor one line on, also on
\* a line whose content begins with `@`, which leaves the block as it was.
C12_EveryIterationAdvances ==
    [][pc = "accumulate" /\ i < Len(lines) /\ is_doc_comment(Line(lines, i)) =>
          /\ i' = i + 1
          /\ starts_with(extract_doc_content(Line(lines, i)), "@") =>
                doc_block' = doc_block]_vars

\* the block in hand begins where its run of comment lines begins
BlockStartsItsRun ==
    \/ doc_block.start_line = 0
    \/ ~is_doc_comment(Line(lines, doc_block.start_line - 1))

\* no line from the cursor up to line decl starts another doc block
NoLaterBlockBefore(decl) ==
    \A k \in i..(decl - 1) : ~starts_block(Line(lines, k))

\* C13: an entry is built from all and only the annotation lines of the one
\* maximal run of comment lines before its declaration: when an entry is
\* pushed, its block began at the first line of its run (the scan starts no
\* block part-way through a run) and no later doc block lies between the
\* block and the declaration it takes.
C13_WholeRunOwnDeclaration ==
    [][pc = "lookahead" /\ Len(sources') > Len(sources) =>
          /\ BlockStartsItsRun
          /\ NoLaterBlockBefore(sources'[Len(sources')])]_vars

====
